---------------------------- MODULE Spec2Model ----------------------------
(***************************************************************************)
(* Model of rtb/data_reader.py: DataReader.read_data and the two concrete  *)
(* readers, ImpressionsReader and ClicksReader.                            *)
(*                                                                         *)
(* A file is the sequence of rows csv.reader yields; a row is a sequence   *)
(* of fields; a field (a Python str) is a sequence of one-character        *)
(* strings.  Every other Python value is a record tagged with its type, so *)
(* that values of different types can be compared.                         *)
(***************************************************************************)
EXTENDS Integers, Sequences, FiniteSets, TLC

\* ---------------------------------------------------------------- bounds
MaxRows == 2
MaxLimit == 1

\* ------------------------------------------------------- Python values
None == [t |-> "None"]
NaN == [t |-> "NaN"]
StrV(s) == [t |-> "str", s |-> s]
IntV(n) == [t |-> "int", v |-> n]
ListV(xs) == [t |-> "list", items |-> xs]
DateTime(y, mo, d, h, mi, s) ==
    [t |-> "datetime", year |-> y, month |-> mo, day |-> d,
     hour |-> h, minute |-> mi, second |-> s]

\* The outcome of a call: a returned value or a raised exception.
Ok(v) == [ok |-> TRUE, val |-> v]
Raise(type, msg) == [ok |-> FALSE, exc |-> [type |-> type, msg |-> msg]]

\* ------------------------------------------------------------- strings
DigitChars == <<"0", "1", "2", "3", "4", "5", "6", "7", "8", "9">>

IsDigit(c) == \E k \in 1..Len(DigitChars) : DigitChars[k] = c

DigitVal(c) == (CHOOSE k \in 1..Len(DigitChars) : DigitChars[k] = c) - 1

AllDigits(s) == \A k \in 1..Len(s) : IsDigit(s[k])

RECURSIVE DigitsValue(_)
DigitsValue(s) ==
    IF s = <<>> THEN 0
    ELSE DigitsValue(SubSeq(s, 1, Len(s) - 1)) * 10 + DigitVal(s[Len(s)])

\* int(s) on the alphabet of the modelled fields (digits, letters, sign):
\* an optional sign and at least one digit, leading zeros allowed.
PyInt(s) ==
    LET signed == s # <<>> /\ s[1] \in {"+", "-"}
        body == IF signed THEN Tail(s) ELSE s
    IN  IF body = <<>> \/ ~AllDigits(body)
        THEN Raise("ValueError", "invalid literal for int()")
        ELSE Ok(IF signed /\ s[1] = "-" THEN 0 - DigitsValue(body)
                ELSE DigitsValue(body))

\* s.split(','): "" gives [""], "1," gives ["1", ""].
RECURSIVE Split(_)
Split(s) ==
    IF \A k \in 1..Len(s) : s[k] # ","
    THEN <<s>>
    ELSE LET k == CHOOSE j \in 1..Len(s) :
                     s[j] = "," /\ \A h \in 1..(j - 1) : s[h] # ","
         IN  <<SubSeq(s, 1, k - 1)>> \o Split(SubSeq(s, k + 1, Len(s)))

\* s[:-3]
DropLast3(s) == IF Len(s) <= 3 THEN <<>> ELSE SubSeq(s, 1, Len(s) - 3)

\* [int(tag) for tag in pieces]: the first bad piece raises.
RECURSIVE IntList(_)
IntList(pieces) ==
    IF pieces = <<>> THEN Ok(<<>>)
    ELSE LET h == PyInt(Head(pieces))
         IN  IF ~h.ok THEN h
             ELSE LET r == IntList(Tail(pieces))
                  IN  IF ~r.ok THEN r ELSE Ok(<<h.val>> \o r.val)

\* ------------------------------------------------- datetime.strptime
\* The directives of '%Y%m%d%H%M%S' after %Y, in order.
Directives == <<"m", "d", "H", "M", "S">>

\* The two-digit alternatives of a directive's regular expression:
\* m: 1[0-2]|0[1-9]   d: 3[01]|[12]\d|0[1-9]   H: 2[0-3]|[0-1]\d
\* M: [0-5]\d          S: 6[01]|[0-5]\d
TwoDigits(dir, a, b) ==
    CASE dir = "m" -> (a = 1 /\ b <= 2) \/ (a = 0 /\ b >= 1)
      [] dir = "d" -> (a = 3 /\ b <= 1) \/ a \in {1, 2} \/ (a = 0 /\ b >= 1)
      [] dir = "H" -> (a = 2 /\ b <= 3) \/ a <= 1
      [] dir = "M" -> a <= 5
      [] dir = "S" -> (a = 6 /\ b <= 1) \/ a <= 5

\* The one-digit alternative: m and d take [1-9], the others \d.
OneDigit(dir, a) == IF dir \in {"m", "d"} THEN a >= 1 ELSE TRUE

\* The regular expression's match from position pos for the directives
\* from f on: the two-digit alternative is tried first and the match
\* backtracks to the one-digit one when the rest fails.
RECURSIVE MatchFrom(_, _, _)
MatchFrom(s, pos, f) ==
    IF f > Len(Directives) THEN [ok |-> TRUE, vals |-> <<>>, end |-> pos]
    ELSE
      LET dir == Directives[f]
          can1 == pos <= Len(s) /\ IsDigit(s[pos])
          can2 == can1 /\ pos + 1 <= Len(s) /\ IsDigit(s[pos + 1])
                  /\ TwoDigits(dir, DigitVal(s[pos]), DigitVal(s[pos + 1]))
          two == IF can2 THEN MatchFrom(s, pos + 2, f + 1) ELSE [ok |-> FALSE]
          one == IF can1 /\ OneDigit(dir, DigitVal(s[pos]))
                 THEN MatchFrom(s, pos + 1, f + 1) ELSE [ok |-> FALSE]
      IN  IF two.ok
          THEN [ok |-> TRUE, end |-> two.end,
                vals |-> <<DigitVal(s[pos]) * 10 + DigitVal(s[pos + 1])>>
                         \o two.vals]
          ELSE IF one.ok
          THEN [ok |-> TRUE, end |-> one.end,
                vals |-> <<DigitVal(s[pos])>> \o one.vals]
          ELSE [ok |-> FALSE]

IsLeap(y) == (y % 4 = 0 /\ y % 100 # 0) \/ y % 400 = 0

DaysInMonth(y, mo) ==
    IF mo = 2 THEN (IF IsLeap(y) THEN 29 ELSE 28)
    ELSE IF mo \in {4, 6, 9, 11} THEN 30 ELSE 31

\* datetime.strptime(s, '%Y%m%d%H%M%S')
StrpTime(s) ==
    IF Len(s) < 4 \/ ~AllDigits(SubSeq(s, 1, 4))
    THEN Raise("ValueError", "time data does not match format")
    ELSE
      LET y == DigitsValue(SubSeq(s, 1, 4))
          m == MatchFrom(s, 5, 1)
      IN  IF ~m.ok
          THEN Raise("ValueError", "time data does not match format")
          ELSE IF m.end # Len(s) + 1
          THEN Raise("ValueError", "unconverted data remains")
          ELSE IF y < 1 \/ m.vals[2] > DaysInMonth(y, m.vals[1])
                  \/ m.vals[5] > 59
          THEN Raise("ValueError", "value out of range")
          ELSE Ok(DateTime(y, m.vals[1], m.vals[2], m.vals[3], m.vals[4],
                           m.vals[5]))

\* ------------------------------------------------------- the readers
ImpressionFields ==
    <<"bid_id", "timestamp", "log_type", "ipinyou_id", "user_agent",
      "ip_address", "region_id", "city_id", "ad_exchange", "domain", "url",
      "anonymous_url_id", "ad_slot_id", "ad_slot_width", "ad_slot_height",
      "ad_slot_visibility", "ad_slot", "ad_slot_floor_price", "creative_id",
      "bidding_price", "paying_price", "key_page_url", "advertiser_id",
      "user_tags">>

ImpressionKeys == {ImpressionFields[k] : k \in 1..Len(ImpressionFields)}

\* The position (from 0, as in the code) of a field name.
FieldIndex(name) ==
    (CHOOSE k \in 1..Len(ImpressionFields) : ImpressionFields[k] = name) - 1

NullStr == <<"n", "u", "l", "l">>

\* A variant that keeps the raw text of a tag list it cannot parse.
RowTransformerImpressionsKeepRaw(row) ==
    IF Len(row) < Len(ImpressionFields)
    THEN Raise("IndexError", "list index out of range")
    ELSE
      LET entry == [f \in ImpressionKeys |-> StrV(row[FieldIndex(f) + 1])]
          raw == entry["user_tags"].s
          tags == IF raw # NullStr THEN IntList(Split(raw)) ELSE Ok(<<>>)
          time == StrpTime(DropLast3(entry["timestamp"].s))
      IN  IF ~time.ok THEN time
          ELSE Ok([entry EXCEPT
                     !["user_tags"] = IF raw = NullStr THEN None
                                      ELSE IF tags.ok THEN ListV(tags.val)
                                      ELSE @,
                     !["timestamp"] = time.val])

\* ImpressionsReader._row_transformer
RowTransformerImpressions(row) ==
    IF Len(row) < Len(ImpressionFields)
    THEN Raise("IndexError", "list index out of range")
    ELSE
      LET entry == [f \in ImpressionKeys |-> StrV(row[FieldIndex(f) + 1])]
          raw == entry["user_tags"].s
          tags == IF raw # NullStr THEN IntList(Split(raw)) ELSE Ok(<<>>)
          time == StrpTime(DropLast3(entry["timestamp"].s))
      IN  IF ~tags.ok THEN tags
          ELSE IF ~time.ok THEN time
          ELSE Ok([entry EXCEPT
                     !["user_tags"] = IF raw # NullStr THEN ListV(tags.val)
                                      ELSE None,
                     !["timestamp"] = time.val])

ClickKeys == {"bid_id", "timestamp", "ipinyou_id"}

\* ClicksReader._row_transformer: row[0], row[1] and row[3].
RowTransformerClicks(row) ==
    IF Len(row) < 4
    THEN Raise("IndexError", "list index out of range")
    ELSE
      LET time == StrpTime(DropLast3(row[2]))
      IN  IF ~time.ok THEN time
          ELSE Ok([f \in ClickKeys |->
                     CASE f = "bid_id" -> StrV(row[1])
                       [] f = "timestamp" -> time.val
                       [] f = "ipinyou_id" -> StrV(row[4])])

\* ---------------------------------------------------------- the table
\* pd.DataFrame(data): the columns are the union of the records' keys and
\* a record's missing key is NaN; no record, no column.
DataFrame(data) ==
    LET cols == UNION {DOMAIN data[k] : k \in 1..Len(data)}
    IN  [columns |-> cols,
         rows |-> [k \in 1..Len(data) |->
                     [c \in cols |-> IF c \in DOMAIN data[k] THEN data[k][c]
                                     ELSE NaN]]]

\* df.drop(col, axis=1) on a frame that has the column.
Drop(df, col) ==
    [columns |-> df.columns \ {col},
     rows |-> [k \in 1..Len(df.rows) |->
                 [c \in df.columns \ {col} |-> df.rows[k][c]]]]

\* A fill that leaves the missing cells as they are.
FillNaNothing(df, cols) == df

\* df[cols] = df[cols].fillna(0)
FillNa(df, cols) ==
    [df EXCEPT !.rows =
       [k \in 1..Len(df.rows) |->
          [c \in df.columns |->
             IF c \in cols /\ df.rows[k][c] = NaN THEN IntV(0)
             ELSE df.rows[k][c]]]]

\* pd.to_numeric on one cell; the numeric fields of the modelled rows are
\* digit strings or text that is no number.
ToNumeric(v) ==
    IF v.t # "str" THEN Ok(v)
    ELSE LET r == PyInt(v.s)
         IN  IF r.ok THEN Ok(IntV(r.val))
             ELSE Raise("ValueError", "Unable to parse string")

ConvertToNums ==
    {"ad_slot_floor_price", "ad_slot_height", "ad_slot_width",
     "advertiser_id", "bidding_price", "log_type", "paying_price",
     "city_id", "creative_id"}

\* "user_tag_%d" % t
TagColName(t) == "user_tag_" \o ToString(t)

\* The tag columns one record sets to 1.
RowTagCols(row) ==
    IF row["user_tags"] = None THEN {}
    ELSE {TagColName(row["user_tags"].items[j]) :
            j \in 1..Len(row["user_tags"].items)}

\* user_tag_col_cache after the scan of data.
UserTagColCache(data) == UNION {RowTagCols(data[k]) : k \in 1..Len(data)}

Other == <<"O", "t", "h", "e", "r">>

\* user_agents.parse: the families of a string it does not recognise,
\* which is what the modelled rows carry.
ParseUserAgent(ua) ==
    [os |-> StrV(Other), browser |-> StrV(Other), device |-> StrV(Other)]

\* One pass of the loop over data: the record with os, browser, device
\* and its tag columns set.
Annotate(row) ==
    LET ua == ParseUserAgent(row["user_agent"].s)
        tagcols == RowTagCols(row)
    IN  [c \in DOMAIN row \cup {"os", "browser", "device"} \cup tagcols |->
           CASE c = "os" -> ua.os
             [] c = "browser" -> ua.browser
             [] c = "device" -> ua.device
             [] c \in tagcols -> IntV(1)
             [] OTHER -> row[c]]

\* ImpressionsReader._post_processor
PostProcessorImpressions(data) ==
    LET cache == UserTagColCache(data)
        df == DataFrame([k \in 1..Len(data) |-> Annotate(data[k])])
    IN  IF "user_tags" \notin df.columns
        THEN Raise("KeyError", "['user_tags'] not found in axis")
        ELSE
          LET filled == FillNa(Drop(df, "user_tags"), cache)
              bad == {<<k, c>> \in (1..Len(filled.rows)) \X ConvertToNums :
                        ~ToNumeric(filled.rows[k][c]).ok}
          IN  IF bad # {}
              THEN Raise("ValueError", "Unable to parse string")
              ELSE Ok([filled EXCEPT !.rows =
                         [k \in 1..Len(filled.rows) |->
                            [c \in filled.columns |->
                               IF c \in ConvertToNums
                               THEN ToNumeric(filled.rows[k][c]).val
                               ELSE filled.rows[k][c]]]])

\* ClicksReader._post_processor
PostProcessorClicks(data) == Ok(DataFrame(data))

RowTransformer(rd, row) ==
    IF rd = "impressions" THEN RowTransformerImpressions(row)
    ELSE RowTransformerClicks(row)

PostProcessor(rd, data) ==
    IF rd = "impressions" THEN PostProcessorImpressions(data)
    ELSE PostProcessorClicks(data)

\* ------------------------------------------------------------ inputs
TsGood ==
    <<"2", "0", "1", "3", "0", "6", "0", "6", "0", "0", "0", "1", "0", "4",
      "0", "0", "8">>
TsLoose == <<"2", "0", "1", "3", "6", "6", "1", "2", "1", "5", "0", "0", "8">>
TsBadMonth ==
    <<"2", "0", "1", "3", "1", "3", "0", "6", "0", "0", "0", "1", "0", "4",
      "0", "0", "8">>

\* A row of n fields: bid id, timestamp, floor price and tags as given,
\* every other field the text "7".
MkRow(n, bid, ts, floor, tags) ==
    [k \in 1..n |->
       CASE k = FieldIndex("bid_id") + 1 -> bid
         [] k = FieldIndex("timestamp") + 1 -> ts
         [] k = FieldIndex("ad_slot_floor_price") + 1 -> floor
         [] k = FieldIndex("user_tags") + 1 -> tags
         [] OTHER -> <<"7">>]

RowTags12 == MkRow(Len(ImpressionFields), <<"a">>, TsGood, <<"5">>,
                   <<"1", ",", "2">>)
RowNull == MkRow(Len(ImpressionFields), <<"b">>, TsGood, <<"5">>, NullStr)
RowTags02 == MkRow(Len(ImpressionFields), <<"c">>, TsLoose, <<"0", "5">>,
                   <<"0", "2">>)
RowBadTag == MkRow(Len(ImpressionFields), <<"d">>, TsGood, <<"5">>,
                   <<"1", ",", "x">>)
RowBadTime == MkRow(Len(ImpressionFields), <<"e">>, TsBadMonth, <<"5">>,
                    <<"2">>)
RowBadPrice == MkRow(Len(ImpressionFields), <<"f">>, TsGood, <<"x">>, NullStr)
RowClick == <<<<"g">>, TsGood, <<"7">>, <<"u">>>>
RowShort == <<<<"h">>, TsGood, <<"7">>>>

SampleRows ==
    {RowTags12, RowNull, RowTags02, RowBadTag, RowBadTime, RowBadPrice,
     RowClick, RowShort}

Files == UNION {[1..n -> SampleRows] : n \in 0..MaxRows}

Limits == {None} \cup {IntV(n) : n \in 0..MaxLimit}

\* ------------------------------------------------------------- state
VARIABLES
    reader,       \* "impressions" or "clicks": the class of self
    file,         \* the rows csv.reader yields from data_path
    limit,        \* None or an integer
    verbose,
    pc,           \* "start", "loop", "with_exit", "post", "done", "raised"
    handle,       \* data_file: "none", "open" or "closed"
    i,            \* the index enumerate gives the next row
    result,       \* the accumulated list
    pending,      \* the exception leaving the with block, or None
    output,       \* what print has written
    ret,          \* the value read_data returned, or None
    exc,          \* the exception read_data raised, or None
    transformed,  \* history: the indices of the rows given to the transformer
    accepted,     \* history: the indices of the rows whose record was appended
    opens,        \* history: how many times the file was opened
    postCalls     \* history: how many times the post-processor was called

vars ==
    <<reader, file, limit, verbose, pc, handle, i, result, pending, output,
      ret, exc, transformed, accepted, opens, postCalls>>

ProgressEvery == 10000

Init ==
    /\ reader \in {"impressions", "clicks"}
    /\ file \in Files
    /\ limit \in Limits
    /\ verbose \in BOOLEAN
    /\ pc = "start"
    /\ handle = "none"
    /\ i = 0
    /\ result = <<>>
    /\ pending = None
    /\ output = <<>>
    /\ ret = None
    /\ exc = None
    /\ transformed = <<>>
    /\ accepted = <<>>
    /\ opens = 0
    /\ postCalls = 0

\* if limit is not None: if i > limit: break
ShouldBreak(lim, idx) == lim # None /\ idx > lim.v

\* if i % 10000 == 0 and verbose (under limit is not None)
ProgressDue(lim, idx, vb) == lim # None /\ idx % ProgressEvery = 0 /\ vb

\* load_percent = i / limit
LoadPercent(idx, lim) ==
    IF lim.v = 0 THEN Raise("ZeroDivisionError", "division by zero")
    ELSE Ok([num |-> idx, den |-> lim.v])

\* A list that takes the new record at its front.
AppendResultFront(res, rec) == <<rec>> \o res

\* result.append(transformed_row)
AppendResult(res, rec) == Append(res, rec)

\* A handler that prints nothing.
ReportErrorSilent(out, idx, e) == out

\* print("Error transforming row %d: %s" % (i, str(e)))
ReportError(out, idx, e) ==
    Append(out, [kind |-> "error", row |-> idx, cause |-> e])

\* A with block that leaves the handle open when an exception crosses it.
WithExitLeaky(h, e) == IF e = None THEN "closed" ELSE h

\* The with statement's exit: the handle is closed, exception or not.
WithExit(h, e) == "closed"

\* codecs.open succeeds and the with block is entered.
Open ==
    /\ pc = "start"
    /\ handle' = "open"
    /\ opens' = opens + 1
    /\ result' = <<>>
    /\ pc' = "loop"
    /\ UNCHANGED <<reader, file, limit, verbose, i, pending, output, ret, exc,
                   transformed, accepted, postCalls>>

\* codecs.open fails (no such file, unreadable): read_data raises.
OpenFail ==
    /\ pc = "start"
    /\ exc' = Raise("IOError", "cannot open data_path").exc
    /\ pc' = "raised"
    /\ UNCHANGED <<reader, file, limit, verbose, handle, i, result, pending,
                   output, ret, transformed, accepted, opens, postCalls>>

\* The reader is exhausted: the for loop ends.
EndOfFile ==
    /\ pc = "loop"
    /\ i = Len(file)
    /\ pc' = "with_exit"
    /\ UNCHANGED <<reader, file, limit, verbose, handle, i, result, pending,
                   output, ret, exc, transformed, accepted, opens, postCalls>>

\* A row is read and its index is over the limit: break.
LimitBreak ==
    /\ pc = "loop"
    /\ i < Len(file)
    /\ ShouldBreak(limit, i)
    /\ pc' = "with_exit"
    /\ UNCHANGED <<reader, file, limit, verbose, handle, i, result, pending,
                   output, ret, exc, transformed, accepted, opens, postCalls>>

\* A row is read, progress is due and computing it raises: the exception
\* leaves the loop, which has no handler for it.
ProgressRaises ==
    /\ pc = "loop"
    /\ i < Len(file)
    /\ ~ShouldBreak(limit, i)
    /\ ProgressDue(limit, i, verbose)
    /\ ~LoadPercent(i, limit).ok
    /\ pending' = LoadPercent(i, limit).exc
    /\ pc' = "with_exit"
    /\ UNCHANGED <<reader, file, limit, verbose, handle, i, result, output,
                   ret, exc, transformed, accepted, opens, postCalls>>

\* A row is read and goes through the body of the loop: the progress line
\* when it is due, then the transformer under try/except.
TransformRow ==
    /\ pc = "loop"
    /\ i < Len(file)
    /\ ~ShouldBreak(limit, i)
    /\ ProgressDue(limit, i, verbose) => LoadPercent(i, limit).ok
    /\ LET out == IF ProgressDue(limit, i, verbose)
                  THEN Append(output, [kind |-> "progress",
                                       value |-> LoadPercent(i, limit).val])
                  ELSE output
           r == RowTransformer(reader, file[i + 1])
       IN  /\ transformed' = Append(transformed, i)
           /\ IF r.ok
              THEN /\ result' = AppendResult(result, r.val)
                   /\ accepted' = Append(accepted, i)
                   /\ output' = out
              ELSE /\ output' = ReportError(out, i, r.exc)
                   /\ UNCHANGED <<result, accepted>>
    /\ i' = i + 1
    /\ UNCHANGED <<reader, file, limit, verbose, pc, handle, pending, ret,
                   exc, opens, postCalls>>

\* Control leaves the with block: the handle is released, and a pending
\* exception goes on to the caller.
ExitWith ==
    /\ pc = "with_exit"
    /\ handle' = WithExit(handle, pending)
    /\ IF pending = None
       THEN pc' = "post" /\ UNCHANGED exc
       ELSE pc' = "raised" /\ exc' = pending
    /\ UNCHANGED <<reader, file, limit, verbose, i, result, pending, output,
                   ret, transformed, accepted, opens, postCalls>>

\* result = self._post_processor(result); return result
PostProcess ==
    /\ pc = "post"
    /\ postCalls' = postCalls + 1
    /\ LET r == PostProcessor(reader, result)
       IN  IF r.ok
           THEN pc' = "done" /\ ret' = r.val /\ UNCHANGED exc
           ELSE pc' = "raised" /\ exc' = r.exc /\ UNCHANGED ret
    /\ UNCHANGED <<reader, file, limit, verbose, handle, i, result, pending,
                   output, transformed, accepted, opens>>

Next ==
    \/ Open
    \/ OpenFail
    \/ EndOfFile
    \/ LimitBreak
    \/ ProgressRaises
    \/ TransformRow
    \/ ExitWith
    \/ PostProcess

Spec == Init /\ [][Next]_vars

\* read_data as a function of its inputs: the loop, then the post-processor.
RECURSIVE ReadLoop(_, _, _, _, _, _)
ReadLoop(rd, f, lim, vb, idx, acc) ==
    IF idx = Len(f) \/ ShouldBreak(lim, idx) THEN Ok(acc)
    ELSE IF ProgressDue(lim, idx, vb) /\ ~LoadPercent(idx, lim).ok
    THEN LoadPercent(idx, lim)
    ELSE LET r == RowTransformer(rd, f[idx + 1])
         IN  ReadLoop(rd, f, lim, vb, idx + 1,
                      IF r.ok THEN AppendResult(acc, r.val) ELSE acc)

ReadData(rd, f, lim, vb) ==
    LET l == ReadLoop(rd, f, lim, vb, 0, <<>>)
    IN  IF ~l.ok THEN l ELSE PostProcessor(rd, l.val)

\* ------------------------------------------------------------ properties
Terminal == pc \in {"done", "raised"}

\* How a finished call ended: the returned table or the raised exception.
Outcome == IF pc = "done" THEN Ok(ret) ELSE [ok |-> FALSE, exc |-> exc]

Min(a, b) == IF a <= b THEN a ELSE b

\* The rows from index 0 that the limit lets through.
RowsWithinLimit ==
    IF limit = None THEN Len(file) ELSE Min(limit.v + 1, Len(file))

ErrorLines(j) ==
    {e \in 1..Len(output) : output[e].kind = "error" /\ output[e].row = j}

WasTransformed(j) == \E k \in 1..Len(transformed) : transformed[k] = j

WasAccepted(j) == \E k \in 1..Len(accepted) : accepted[k] = j

\* The records of the first k rows of the file that transform, in order.
RECURSIVE Survivors(_)
Survivors(k) ==
    IF k = 0 THEN <<>>
    ELSE LET r == RowTransformer(reader, file[k])
         IN  IF r.ok THEN Append(Survivors(k - 1), r.val)
             ELSE Survivors(k - 1)

\* C1: with limit = n the transformer is called on exactly the rows 0..n,
\* min(n + 1, N) of them, and on all N rows with limit = None; no row over
\* the limit is transformed or named in a diagnostic.
C1_TransformsRowsUpToLimit ==
    (Terminal /\ opens = 1) =>
        /\ transformed = [k \in 1..RowsWithinLimit |-> k - 1]
        /\ \A j \in 0..(Len(file) - 1) :
             (limit # None /\ j > limit.v) => ErrorLines(j) = {}

\* C2: a row whose transformation raises contributes no record, gets
\* exactly one diagnostic with its index and the cause, and every later row
\* within the limit is still given to the transformer.
C2_FailedRowIsolated ==
    /\ Len(accepted) = Len(result)
    /\ \A k \in 1..Len(transformed) :
         LET j == transformed[k]
             r == RowTransformer(reader, file[j + 1])
         IN  ~r.ok =>
               /\ ~WasAccepted(j)
               /\ Cardinality(ErrorLines(j)) = 1
               /\ \A e \in ErrorLines(j) : output[e].cause = r.exc
               /\ pc # "loop" =>
                    \A j2 \in (j + 1)..(Len(file) - 1) :
                       (limit = None \/ j2 <= limit.v) => WasTransformed(j2)

\* C2 witness: an impression load whose first row has a non-integer tag has
\* dropped it, reported it, transformed the next row and returned a table.
C2_Witness ==
    /\ reader = "impressions"
    /\ pc = "done"
    /\ Len(file) = 2
    /\ file[1] = RowBadTag
    /\ Cardinality(ErrorLines(0)) = 1
    /\ WasTransformed(1)
    /\ accepted = <<1>>

\* C3: the accumulated list is the records of the consumed rows that
\* transformed, in file order, one per row; its length is the rows consumed
\* less the rows that failed.
C3_AccumulatedInOrder ==
    /\ Len(transformed) = i
    /\ result = Survivors(i)
    /\ Len(result) =
         Len(transformed)
         - Cardinality({e \in 1..Len(output) : output[e].kind = "error"})

\* C3 witness: the post-processor is about to be called on two records that
\* differ.
C3_Witness ==
    /\ pc = "post"
    /\ Len(result) = 2
    /\ result[1] # result[2]

\* C4: every call that opens the file calls the post-processor exactly
\* once, after the loop, and returns its value; if it fails nothing is
\* returned.
C4_PostProcessorOnce ==
    /\ postCalls <= 1
    /\ postCalls = 1 => Terminal
    /\ (Terminal /\ opens = 1) =>
         /\ postCalls = 1
         /\ Outcome = PostProcessor(reader, result)
         /\ pc = "raised" => ret = None

\* The columns of an impression table that are not tag columns.
BaseColumns == (ImpressionKeys \ {"user_tags"}) \cup {"os", "browser", "device"}

\* The tags of the records that have a tag list.
TagsOf(data) ==
    UNION {{data[k]["user_tags"].items[j] :
              j \in 1..Len(data[k]["user_tags"].items)} :
           k \in {h \in 1..Len(data) : data[h]["user_tags"] # None}}

HasTag(rec, t) ==
    /\ rec["user_tags"] # None
    /\ \E j \in 1..Len(rec["user_tags"].items) : rec["user_tags"].items[j] = t

\* C5: in the table the impression post-processor returns, the tag columns
\* are the distinct tags of the records, each cell is 1 where the row has
\* the tag and 0 where it has not, and user_tags is no column.
C5_OneHotTags ==
    (pc = "done" /\ reader = "impressions") =>
        /\ ret.columns \ BaseColumns = {TagColName(t) : t \in TagsOf(result)}
        /\ "user_tags" \notin ret.columns
        /\ Len(ret.rows) = Len(result)
        /\ \A k \in 1..Len(result) : \A t \in TagsOf(result) :
             ret.rows[k][TagColName(t)] =
                IF HasTag(result[k], t) THEN IntV(1) ELSE IntV(0)

\* C5 witness: the table of a row tagged "1,2" and a row tagged "null".
C5_Witness ==
    /\ pc = "done"
    /\ reader = "impressions"
    /\ file = <<RowTags12, RowNull>>
    /\ Len(ret.rows) = 2
    /\ ret.columns \ BaseColumns = {"user_tag_1", "user_tag_2"}
    /\ ret.rows[2]["user_tag_1"] = IntV(0)

ClickRowWellFormed(row) == Len(row) >= 4 /\ StrpTime(DropLast3(row[2])).ok

\* C6: the click reader with limit = None turns k well-formed rows into a
\* table of k rows, in file order, with the columns bid_id, timestamp and
\* ipinyou_id; a row of fewer than 4 fields is dropped and the load goes on.
C6_ClickTable ==
    (reader = "clicks" /\ limit = None /\ Terminal /\ opens = 1) =>
        /\ \A j \in 1..Len(file) :
             Len(file[j]) < 4 => WasTransformed(j - 1) /\ ~WasAccepted(j - 1)
        /\ (\A j \in 1..Len(file) : ClickRowWellFormed(file[j])) =>
             /\ pc = "done"
             /\ Len(ret.rows) = Len(file)
             /\ \A k \in 1..Len(file) :
                  /\ DOMAIN ret.rows[k] = ret.columns
                  /\ ret.columns = ClickKeys =>
                       /\ ret.rows[k]["bid_id"] = StrV(file[k][1])
                       /\ ret.rows[k]["timestamp"] =
                            StrpTime(DropLast3(file[k][2])).val
                       /\ ret.rows[k]["ipinyou_id"] = StrV(file[k][4])
             /\ ret.columns = ClickKeys

\* C7: verbose changes the output only: a call ends as the call with
\* verbose = False on the same file and limit ends, and with verbose and a
\* limit each transformed row whose index is a multiple of 10,000 has its
\* progress line.
C7_VerboseSameOutcome ==
    /\ \A k \in 1..Len(transformed) :
         ProgressDue(limit, transformed[k], verbose) =>
           \E e \in 1..Len(output) :
              /\ output[e].kind = "progress"
              /\ output[e].value = [num |-> transformed[k], den |-> limit.v]
    /\ (Terminal /\ opens = 1) => Outcome = ReadData(reader, file, limit, FALSE)

\* C8: the file is opened once, rows are read only while the handle is
\* open, and the handle is closed before the post-processor runs and
\* whenever read_data has returned or raised.
C8_HandleReleased ==
    /\ opens <= 1
    /\ pc = "loop" => handle = "open"
    /\ pc \in {"post", "done"} => handle = "closed"
    /\ postCalls > 0 => handle = "closed"
    /\ pc = "raised" => handle = IF opens = 0 THEN "none" ELSE "closed"

\* C8 witness: an exception left the loop and the handle is closed.
C8_Witness ==
    /\ pc = "raised"
    /\ postCalls = 0
    /\ opens = 1
    /\ handle = "closed"

\* C9: an impression load in which no row survives (or the file is empty)
\* still returns a table, of zero rows.
C9_EmptyLoadReturnsTable ==
    (reader = "impressions" /\ Terminal /\ postCalls = 1 /\ result = <<>>) =>
        /\ pc = "done"
        /\ Len(ret.rows) = 0

ImpressionRowBad(row) ==
    \/ Len(row) < 24
    \/ /\ row[24] # NullStr
       /\ \E p \in 1..Len(Split(row[24])) : ~PyInt(Split(row[24])[p]).ok
    \/ ~StrpTime(DropLast3(row[2])).ok

\* C10: every record the impression reader accumulates has the 24 declared
\* keys, user_tags None (raw "null") or a list of integers, timestamp a
\* datetime and the other fields verbatim; a row with fewer than 24 fields,
\* a non-integer tag piece or a malformed timestamp gives no record.
C10_ImpressionRecordShape ==
    reader = "impressions" =>
        /\ Len(accepted) = Len(result)
        /\ \A k \in 1..Len(result) :
             LET rec == result[k]
                 row == file[accepted[k] + 1]
             IN  /\ DOMAIN rec = ImpressionKeys
                 /\ Cardinality(DOMAIN rec) = 24
                 /\ Len(row) >= 24
                 /\ rec["timestamp"].t = "datetime"
                 /\ IF row[24] = NullStr THEN rec["user_tags"] = None
                    ELSE /\ rec["user_tags"].t = "list"
                         /\ \A j \in 1..Len(rec["user_tags"].items) :
                              rec["user_tags"].items[j] \in Int
                 /\ \A f \in ImpressionKeys \ {"timestamp", "user_tags"} :
                      rec[f] = StrV(row[FieldIndex(f) + 1])
        /\ \A k \in 1..Len(transformed) :
             ImpressionRowBad(file[transformed[k] + 1])
                => ~WasAccepted(transformed[k])

\* C10 witness: a record with a tag list was accumulated and a row with a
\* bad tag piece was not.
C10_Witness ==
    /\ reader = "impressions"
    /\ pc = "post"
    /\ file = <<RowBadTag, RowTags02>>
    /\ Len(result) = 1
    /\ result[1]["user_tags"] = ListV(<<2>>)

\* A finished call ends as the function ReadData says.
StepsAgreeWithReadData ==
    (Terminal /\ opens = 1) => Outcome = ReadData(reader, file, limit, verbose)

=============================================================================
